---- MODULE Spec2Model ----
(***************************************************************************)
(* stt-worker: the speech-to-text relay handler of src/index.ts.           *)
(*                                                                         *)
(* index.ts holds two builds of the same handler: lines 1-181 (base64 by   *)
(* String.fromCharCode(...bytes) and btoa) and lines 183-318 (base64 by    *)
(* Buffer.from).  The variable build says which one is deployed.           *)
(*                                                                         *)
(* One invocation of fetch(request, env) is a process with a position pc:  *)
(*   idle -> body (await request.arrayBuffer())                            *)
(*        -> auth (await getAuthToken(...))                                *)
(*        -> stt  (await fetch(sttApiUrl, ...))                            *)
(*        -> done                                                          *)
(* The token service and the speech API are the environment: their replies *)
(* are nondeterministic choices.  Strings are TLA+ strings, so template    *)
(* literals are \o and "starts with"/"contains" are computed on the text.  *)
(***************************************************************************)
EXTENDS Integers, Sequences, FiniteSets, TLC

(***************************************************************************)
(* Bounds of the model.                                                    *)
(***************************************************************************)
\* concurrent invocations in SpecConc
NumRequests == 2
\* longest request body, in bytes
MaxBodyLen == 2
\* most arguments the engine accepts in one spread call f(...bytes); the
\* real limit is engine-dependent (of the order of 10^5)
MaxSpreadArgs == 1

(***************************************************************************)
(* Program constants.                                                      *)
(***************************************************************************)
ICON_URL == "https://jacklehamster.github.io/stt-worker/icon.png"
FALLBACK == "No transcription available"
STATUS_REDIRECT == 302
STATUS_OK == 200
STATUS_METHOD_NOT_ALLOWED == 405
STATUS_MISSING_CREDENTIALS == 500
STATUS_NO_AUDIO == 400
STATUS_FETCH_ERROR == 503
STATUS_STT_ERROR == 500
SAMPLE_RATE_HERTZ == 16000

(***************************************************************************)
(* Text helpers.                                                           *)
(***************************************************************************)
CharAt(s, i) == SubSeq(s, i, i)

StartsWith(s, p) == Len(s) >= Len(p) /\ SubSeq(s, 1, Len(p)) = p

Contains(s, p) == \E i \in 1..(Len(s) - Len(p) + 1) : SubSeq(s, i, i + Len(p) - 1) = p

\* least index >= from of a character of s that is in stops, or Len(s)+1
RECURSIVE IndexOfAny(_, _, _)
IndexOfAny(s, stops, from) ==
    IF from > Len(s) THEN Len(s) + 1
    ELSE IF CharAt(s, from) \in stops THEN from
    ELSE IndexOfAny(s, stops, from + 1)

(***************************************************************************)
(* new URL(request.url).pathname for an absolute https URL without dot     *)
(* segments: what follows the authority up to the first ? or #, and "/"    *)
(* when the URL has no path.                                               *)
(***************************************************************************)
SCHEME == "https://"

\* the path with the query and the fragment left on it
Pathname_WithSearch(url) ==
    LET start == Len(SCHEME) + 1
        p     == IndexOfAny(url, {"/", "?", "#"}, start)
    IN  IF p > Len(url) \/ CharAt(url, p) # "/" THEN "/"
        ELSE SubSeq(url, p, Len(url))

Pathname(url) ==
    LET start == Len(SCHEME) + 1
        p     == IndexOfAny(url, {"/", "?", "#"}, start)
        q     == IndexOfAny(url, {"?", "#"}, start)
    IN  IF p > Len(url) \/ CharAt(url, p) # "/" THEN "/"
        ELSE SubSeq(url, p, q - 1)

(***************************************************************************)
(* Base64 of a byte sequence (btoa(String.fromCharCode(...bytes)) in the   *)
(* first build, Buffer.from(buf).toString("base64") in the second).        *)
(***************************************************************************)
B64_ALPHABET == "ABCDEFGHIJKLMNOPQRSTUVWXYZabcdefghijklmnopqrstuvwxyz0123456789+/"

B64Char(n) == CharAt(B64_ALPHABET, n + 1)

RECURSIVE Base64(_)
Base64(bytes) ==
    IF Len(bytes) = 0 THEN ""
    ELSE IF Len(bytes) = 1 THEN
        B64Char(bytes[1] \div 4) \o B64Char((bytes[1] % 4) * 16) \o "=="
    ELSE IF Len(bytes) = 2 THEN
        B64Char(bytes[1] \div 4)
          \o B64Char((bytes[1] % 4) * 16 + bytes[2] \div 16)
          \o B64Char((bytes[2] % 16) * 4) \o "="
    ELSE
        B64Char(bytes[1] \div 4)
          \o B64Char((bytes[1] % 4) * 16 + bytes[2] \div 16)
          \o B64Char((bytes[2] % 16) * 4 + bytes[3] \div 64)
          \o B64Char(bytes[3] % 64)
          \o Base64(SubSeq(bytes, 4, Len(bytes)))

(***************************************************************************)
(* JSON.  An optional value (x?.f, a[0], a field that may be missing) is a *)
(* set of at most one element.  An object is a function whose domain is    *)
(* the set of fields that are present; {} is the empty function <<>>.      *)
(***************************************************************************)
Field(o, f) == IF f \in DOMAIN o THEN {o[f]} ELSE {}

Index0(a) == IF Len(a) >= 1 THEN {a[1]} ELSE {}

\* texts a reply of the speech API, or the credential secret, can hold
BODY_EMPTY_OBJECT == "{}"
BODY_NO_RESULTS == "{\"results\":[]}"
BODY_RESULT_NO_ALTERNATIVES == "{\"results\":[{}]}"
BODY_EMPTY_ALTERNATIVES == "{\"results\":[{\"alternatives\":[]}]}"
BODY_NO_TRANSCRIPT == "{\"results\":[{\"alternatives\":[{}]}]}"
BODY_EMPTY_TRANSCRIPT == "{\"results\":[{\"alternatives\":[{\"transcript\":\"\"}]}]}"
BODY_HELLO == "{\"results\":[{\"alternatives\":[{\"transcript\":\"hello\"}]}]}"
BODY_MANY ==
    "{\"results\":[{\"alternatives\":[{\"transcript\":\"hello\"},{\"transcript\":\"hallo\"}]},{\"alternatives\":[{\"transcript\":\"world\"}]}]}"
BODY_SECOND_ONLY ==
    "{\"results\":[{\"alternatives\":[]},{\"alternatives\":[{\"transcript\":\"world\"}]}]}"
BODY_NULL == "null"
BODY_NONE == ""
BODY_DENIED == "denied"

CRED_GOOD == "{\"client_email\":\"svc@p.iam\",\"private_key\":\"KEY\"}"
CRED_NO_KEY == "{\"client_email\":\"svc@p.iam\"}"
CRED_MALFORMED == "{\"client_email\":"

Parsed(v) == [kind |-> "value", value |-> v]

\* JSON.parse / Response.json() on the texts above: the parsed object, null,
\* or a SyntaxError for a text that is not JSON
JsonParse(text) ==
    CASE text = BODY_EMPTY_OBJECT -> Parsed(<<>>)
      [] text = BODY_NO_RESULTS -> Parsed([results |-> <<>>])
      [] text = BODY_RESULT_NO_ALTERNATIVES -> Parsed([results |-> << <<>> >>])
      [] text = BODY_EMPTY_ALTERNATIVES -> Parsed([results |-> <<[alternatives |-> <<>>]>>])
      [] text = BODY_NO_TRANSCRIPT -> Parsed([results |-> <<[alternatives |-> << <<>> >>]>>])
      [] text = BODY_EMPTY_TRANSCRIPT ->
           Parsed([results |-> <<[alternatives |-> <<[transcript |-> ""]>>]>>])
      [] text = BODY_HELLO ->
           Parsed([results |-> <<[alternatives |-> <<[transcript |-> "hello"]>>]>>])
      [] text = BODY_MANY ->
           Parsed([results |-> <<[alternatives |-> <<[transcript |-> "hello"],
                                                      [transcript |-> "hallo"]>>],
                                 [alternatives |-> <<[transcript |-> "world"]>>]>>])
      [] text = BODY_SECOND_ONLY ->
           Parsed([results |-> <<[alternatives |-> <<>>],
                                 [alternatives |-> <<[transcript |-> "world"]>>]>>])
      [] text = CRED_GOOD -> Parsed([client_email |-> "svc@p.iam", private_key |-> "KEY"])
      [] text = CRED_NO_KEY -> Parsed([client_email |-> "svc@p.iam"])
      [] text = BODY_NULL -> [kind |-> "null"]
      [] OTHER -> [kind |-> "SyntaxError"]

\* JSON.stringify({ text: t }) for a t without characters that need escaping
JsonStringifyText(t) == "{\"text\":\"" \o t \o "\"}"

\* result.results?.[0]?.alternatives?.[0]?.transcript
FirstTranscript(result) ==
    LET results      == Field(result, "results")
        first        == UNION {Index0(a) : a \in results}
        alternatives == UNION {Field(o, "alternatives") : o \in first}
        alternative  == UNION {Index0(a) : a \in alternatives}
    IN  UNION {Field(o, "transcript") : o \in alternative}

\* x ?? "No transcription available": only undefined falls back
Transcription_Nullish(result) ==
    LET t == FirstTranscript(result)
    IN  IF t = {} THEN FALLBACK ELSE CHOOSE x \in t : TRUE

\* x || "No transcription available": undefined and "" are falsy
Transcription(result) ==
    LET t == FirstTranscript(result)
    IN  IF t = {} \/ t = {""} THEN FALLBACK ELSE CHOOSE x \in t : TRUE

(***************************************************************************)
(* Responses and the ways an invocation ends.                              *)
(***************************************************************************)
Response(status, body, headers) ==
    [kind |-> "response", status |-> status, body |-> body, headers |-> headers]

Threw(name) == [kind |-> "error", name |-> name]

Pending == [kind |-> "pending"]

Redirect(url) == Response(STATUS_REDIRECT, "", {<<"Location", url>>})

HTML_RECORDER ==
    "<!DOCTYPE html><button id=\"recordButton\"><input type=\"file\" id=\"audioFile\"><script>uploadAudio</script>"
HTML_UPLOAD ==
    "<!DOCTYPE html><input type=\"file\" id=\"audioFile\"><script>uploadAudio</script>"

HtmlPage(b) ==
    IF b = 1
    THEN Response(STATUS_OK, HTML_RECORDER,
                  {<<"Content-Type", "text/html">>, <<"Cache-Control", "public, max-age=3600">>})
    ELSE Response(STATUS_OK, HTML_UPLOAD, {<<"Content-Type", "text/html">>})

MethodNotAllowed ==
    Response(STATUS_METHOD_NOT_ALLOWED, "Method not allowed. Use POST with audio data.",
             {<<"Content-Type", "text/plain">>})

MissingCredentialsResponse == Response(STATUS_MISSING_CREDENTIALS, "Missing service credentials", {})

NoAudioResponse == Response(STATUS_NO_AUDIO, "No audio data provided", {})

\* the transport failure reported as a plain server error
FetchErrorResponse_As500(message) == Response(STATUS_STT_ERROR, "Fetch error: " \o message, {})

FetchErrorResponse(message) == Response(STATUS_FETCH_ERROR, "Fetch error: " \o message, {})

SttErrorResponse(errorText) == Response(STATUS_STT_ERROR, "STT API error: " \o errorText, {})

TranscriptionResponse(transcription) ==
    Response(STATUS_OK, JsonStringifyText(transcription),
             {<<"Content-Type", "application/json">>, <<"Cache-Control", "no-store">>})

\* success taken to be "not a client or server error"
Ok_Below400(status) == status < 400

\* Response.ok
Ok(status) == status >= 200 /\ status <= 299

\* a check for undefined only
MissingCredentials_UnsetOnly(e) == e.SHEETS_SERVICE_KEY_JSON = {}

\* !env.SHEETS_SERVICE_KEY_JSON: the secret is unset, or the empty string
MissingCredentials(e) ==
    e.SHEETS_SERVICE_KEY_JSON = {} \/ e.SHEETS_SERVICE_KEY_JSON = {""}

\* the byteLength test dropped: an ArrayBuffer is never falsy
EmptyBuffer_NullOnly(audioBuffer) == FALSE

\* !audioBuffer || audioBuffer.byteLength === 0
EmptyBuffer(audioBuffer) == Len(audioBuffer) = 0

\* String.fromCharCode(...audioBytes) of the first build throws a RangeError
\* when the engine refuses that many arguments; Buffer.from does not
EncodeThrows(b, audioBuffer) == b = 1 /\ Len(audioBuffer) > MaxSpreadArgs

\* a catch around the exchange that answers 500
TokenFailureOutcome_Caught(name) ==
    Response(STATUS_STT_ERROR, "Token error: " \o name, {})

\* what the rest of fetch() does when `await getAuthToken(...)` rejects: there
\* is no try/catch around it, so the invocation ends with that error
TokenFailureOutcome(name) == Threw(name)

\* the request sent to the speech API
SttRequest(token, audioBase64) ==
    [url |-> "https://speech.googleapis.com/v1/speech:recognize",
     method |-> "POST",
     authorization |-> "Bearer " \o token,
     contentType |-> "application/json",
     payload |-> [config |-> [encoding |-> "MP3",
                              sampleRateHertz |-> SAMPLE_RATE_HERTZ,
                              languageCode |-> "en-US"],
                  audio |-> [content |-> audioBase64]]]

\* what fetch() does with a reply of the speech API
SttOutcome(reply) ==
    IF ~Ok(reply.status) THEN SttErrorResponse(reply.text)
    ELSE LET result == JsonParse(reply.text)
         IN  IF result.kind = "SyntaxError" THEN Threw("SyntaxError")
             ELSE IF result.kind = "null" THEN Threw("TypeError")
             ELSE TranscriptionResponse(Transcription(result.value))

(***************************************************************************)
(* State.                                                                  *)
(***************************************************************************)
VARIABLES
    env,            \* the process-wide configuration; never written
    build,          \* 1: lines 1-181, 2: lines 183-318
    request,        \* request[r]: the request invocation r handles
    pc,             \* pc[r]: where invocation r is suspended
    audioBase64,    \* audioBase64[r]: the local of that name
    authToken,      \* authToken[r]: the local of that name ("" before it is set)
    outcome,        \* outcome[r]: how the invocation ended
    tokenRequests,  \* tokenRequests[r]: calls of client.authorize() by r
    issuedTo,       \* token service: issuedTo[k] is the invocation that got token k
    sttCalls,       \* speech API: the requests it got from r, in order
    sttReply,       \* what the call of r to the speech API came back with
    steps           \* steps[r]: the steps of fetch() that r has executed, in order

vars == <<env, build, request, pc, audioBase64, authToken, outcome, tokenRequests,
          issuedTo, sttCalls, sttReply, steps>>

Slots == 1..NumRequests

NoRequest == [method |-> "", url |-> "", body |-> <<>>]

NoReply == [kind |-> "none"]

\* values of env.SHEETS_SERVICE_KEY_JSON: unset, or a string
Secrets == {{}, {""}, {CRED_MALFORMED}, {BODY_NULL}, {CRED_NO_KEY}, {CRED_GOOD}}

Init ==
    /\ env \in [SHEETS_SERVICE_KEY_JSON : Secrets]
    /\ build \in {1, 2}
    /\ request = [r \in Slots |-> NoRequest]
    /\ pc = [r \in Slots |-> "idle"]
    /\ audioBase64 = [r \in Slots |-> ""]
    /\ authToken = [r \in Slots |-> ""]
    /\ outcome = [r \in Slots |-> Pending]
    /\ tokenRequests = [r \in Slots |-> 0]
    /\ issuedTo = <<>>
    /\ sttCalls = [r \in Slots |-> <<>>]
    /\ sttReply = [r \in Slots |-> NoReply]
    /\ steps = [r \in Slots |-> <<>>]

(***************************************************************************)
(* fetch(request, env), cut at its awaits.                                 *)
(***************************************************************************)
\* an invocation that ends: with a Response it returns, or with an error
Finish(out, done) ==
    [pc |-> "done", outcome |-> out,
     steps |-> IF out.kind = "response" THEN done \o <<"response">> ELSE done]

Await(at, done) == [pc |-> at, outcome |-> Pending, steps |-> done]

\* uploads by PUT let through as well
IsPost_OrPut(method) == method \in {"POST", "PUT"}

\* request.method !== "POST", negated
IsPost(method) == method = "POST"

\* from the entry to the first await (request.arrayBuffer())
Dispatch(req, e, b) ==
    IF Pathname(req.url) = "/favicon.ico" THEN Finish(Redirect(ICON_URL), <<>>)
    ELSE IF req.method = "GET" /\ Pathname(req.url) = "/" THEN Finish(HtmlPage(b), <<>>)
    ELSE IF ~IsPost(req.method) THEN Finish(MethodNotAllowed, <<>>)
    ELSE IF MissingCredentials(e)
         THEN Finish(MissingCredentialsResponse, <<"credentialsCheck">>)
    ELSE Await("body", <<"credentialsCheck">>)

\* getAuthToken() started before the buffer is looked at
AfterBodyRead_TokenFirst(audioBuffer, e, b) ==
    LET creds == JsonParse(CHOOSE c \in e.SHEETS_SERVICE_KEY_JSON : TRUE)
        read  == <<"bodyRead", "tokenExchange", "nonEmptyCheck">>
    IN  IF creds.kind = "SyntaxError" THEN Finish(TokenFailureOutcome("SyntaxError"), read)
        ELSE IF creds.kind = "null" THEN Finish(TokenFailureOutcome("TypeError"), read)
        ELSE IF EmptyBuffer(audioBuffer) THEN Finish(NoAudioResponse, read)
        ELSE IF EncodeThrows(b, audioBuffer) THEN Finish(Threw("RangeError"), read)
        ELSE Await("auth", read)

\* from the body read to the second await: the non-empty check, the base64
\* encoding, and getAuthToken() up to client.authorize()
AfterBodyRead(audioBuffer, e, b) ==
    LET read == <<"bodyRead", "nonEmptyCheck">>
    IN  IF EmptyBuffer(audioBuffer) THEN Finish(NoAudioResponse, read)
        ELSE IF EncodeThrows(b, audioBuffer) THEN Finish(Threw("RangeError"), read)
        ELSE LET creds == JsonParse(CHOOSE c \in e.SHEETS_SERVICE_KEY_JSON : TRUE)
                 exchange == read \o <<"tokenExchange">>
             IN  IF creds.kind = "SyntaxError"
                 THEN Finish(TokenFailureOutcome("SyntaxError"), exchange)
                 ELSE IF creds.kind = "null"
                 THEN Finish(TokenFailureOutcome("TypeError"), exchange)
                 ELSE Await("auth", exchange)

\* the credentials the JWT client got carry an account and a key
CanAuthorize(e) ==
    LET creds == JsonParse(CHOOSE c \in e.SHEETS_SERVICE_KEY_JSON : TRUE)
    IN  /\ creds.kind = "value"
        /\ Field(creds.value, "client_email") # {}
        /\ Field(creds.value, "private_key") # {}

\* the token the k-th successful exchange returns: never the same twice
AccessToken(k) == "ya29." \o ToString(k)

\* a token kept at module level and reused: the first one ever issued
BearerToken_Shared(own) == AccessToken(1)

\* the token fetch() puts in the Authorization header: its own authToken
BearerToken(own) == own

Receive(r, reqs) ==
    /\ pc[r] = "idle"
    /\ \E req \in reqs :
         LET d == Dispatch(req, env, build)
         IN  /\ request' = [request EXCEPT ![r] = req]
             /\ pc' = [pc EXCEPT ![r] = d.pc]
             /\ outcome' = [outcome EXCEPT ![r] = d.outcome]
             /\ steps' = [steps EXCEPT ![r] = @ \o d.steps]
    /\ UNCHANGED <<env, build, audioBase64, authToken, tokenRequests, issuedTo,
                   sttCalls, sttReply>>

BodyRead(r) ==
    /\ pc[r] = "body"
    /\ LET audioBuffer == request[r].body
           d == AfterBodyRead(audioBuffer, env, build)
       IN  /\ pc' = [pc EXCEPT ![r] = d.pc]
           /\ outcome' = [outcome EXCEPT ![r] = d.outcome]
           /\ steps' = [steps EXCEPT ![r] = @ \o d.steps]
           /\ audioBase64' = [audioBase64 EXCEPT ![r] =
                                IF d.pc = "auth" THEN Base64(audioBuffer) ELSE @]
           /\ tokenRequests' = [tokenRequests EXCEPT ![r] =
                                  IF d.pc = "auth" THEN @ + 1 ELSE @]
    /\ UNCHANGED <<env, build, request, authToken, issuedTo, sttCalls, sttReply>>

\* client.authorize() resolves; fetch() goes on to call the speech API
TokenGranted(r) ==
    /\ pc[r] = "auth"
    /\ CanAuthorize(env)
    /\ LET token == AccessToken(Len(issuedTo) + 1)
       IN  /\ issuedTo' = Append(issuedTo, r)
           /\ authToken' = [authToken EXCEPT ![r] = token]
           /\ sttCalls' = [sttCalls EXCEPT ![r] =
                             Append(@, SttRequest(BearerToken(token), audioBase64[r]))]
    /\ pc' = [pc EXCEPT ![r] = "stt"]
    /\ steps' = [steps EXCEPT ![r] = @ \o <<"sttCall">>]
    /\ UNCHANGED <<env, build, request, audioBase64, outcome, tokenRequests, sttReply>>

\* client.authorize() rejects: signing failed, or the token request failed
TokenFailed(r) ==
    /\ pc[r] = "auth"
    /\ LET d == Finish(TokenFailureOutcome("Error"), <<>>)
       IN  /\ pc' = [pc EXCEPT ![r] = d.pc]
           /\ outcome' = [outcome EXCEPT ![r] = d.outcome]
           /\ steps' = [steps EXCEPT ![r] = @ \o d.steps]
    /\ UNCHANGED <<env, build, request, audioBase64, authToken, tokenRequests,
                   issuedTo, sttCalls, sttReply>>

\* the fetch of the speech API rejects
SttFetchThrows(r, messages) ==
    /\ pc[r] = "stt"
    /\ \E message \in messages :
         LET d == Finish(FetchErrorResponse(message), <<>>)
         IN  /\ sttReply' = [sttReply EXCEPT ![r] = [kind |-> "throw", message |-> message]]
             /\ pc' = [pc EXCEPT ![r] = d.pc]
             /\ outcome' = [outcome EXCEPT ![r] = d.outcome]
             /\ steps' = [steps EXCEPT ![r] = @ \o d.steps]
    /\ UNCHANGED <<env, build, request, audioBase64, authToken, tokenRequests,
                   issuedTo, sttCalls>>

\* the speech API answers, and its body is read
SttResponds(r, replies) ==
    /\ pc[r] = "stt"
    /\ \E reply \in replies :
         LET d == Finish(SttOutcome(reply), <<>>)
         IN  /\ sttReply' = [sttReply EXCEPT ![r] =
                               [kind |-> "response", status |-> reply.status,
                                text |-> reply.text]]
             /\ pc' = [pc EXCEPT ![r] = d.pc]
             /\ outcome' = [outcome EXCEPT ![r] = d.outcome]
             /\ steps' = [steps EXCEPT ![r] = @ \o d.steps]
    /\ UNCHANGED <<env, build, request, audioBase64, authToken, tokenRequests,
                   issuedTo, sttCalls>>

(***************************************************************************)
(* Inputs.                                                                 *)
(***************************************************************************)
Methods == {"GET", "HEAD", "POST", "PUT"}

Urls == {"https://h", "https://h/", "https://h/?lang=en", "https://h/api/stt",
         "https://h/favicon.ico", "https://h/favicon.ico?v=1#top",
         "https://h/favicon.ico/", "https://h/?p=/favicon.ico"}

Bytes == {0, 72, 255}

Bodies == UNION {[1..n -> Bytes] : n \in 0..MaxBodyLen}

\* the URLs above whose path is /favicon.ico, and those whose path is /
IconUrls == {"https://h/favicon.ico", "https://h/favicon.ico?v=1#top"}

RootUrls == {"https://h", "https://h/", "https://h/?lang=en", "https://h/?p=/favicon.ico"}

\* a GET or HEAD request carries no body
Requests ==
    {req \in [method : Methods, url : Urls, body : Bodies] :
        req.method \in {"GET", "HEAD"} => req.body = <<>>}

SttStatuses == {200, 299, 300, 403, 500}

SttTexts == {BODY_EMPTY_OBJECT, BODY_NO_RESULTS, BODY_RESULT_NO_ALTERNATIVES,
             BODY_EMPTY_ALTERNATIVES, BODY_NO_TRANSCRIPT, BODY_EMPTY_TRANSCRIPT,
             BODY_HELLO, BODY_MANY, BODY_SECOND_ONLY, BODY_NULL, BODY_NONE, BODY_DENIED}

SttReplies == [status : SttStatuses, text : SttTexts]

FetchErrors == {"", "Network connection lost."}

\* fewer inputs, for several invocations at once
ConcRequests ==
    {[method |-> "POST", url |-> "https://h/", body |-> <<72>>],
     [method |-> "POST", url |-> "https://h/api/stt", body |-> <<>>],
     [method |-> "POST", url |-> "https://h/favicon.ico", body |-> <<72>>],
     [method |-> "GET", url |-> "https://h/", body |-> <<>>]}

ConcReplies == {[status |-> 200, text |-> BODY_HELLO], [status |-> 403, text |-> BODY_DENIED]}

ConcErrors == {"Network connection lost."}

(***************************************************************************)
(* Spec: one invocation, every input.  SpecConc: NumRequests invocations   *)
(* interleaved at their awaits.                                            *)
(***************************************************************************)
Next ==
    \/ Receive(1, Requests)
    \/ BodyRead(1)
    \/ TokenGranted(1)
    \/ TokenFailed(1)
    \/ SttFetchThrows(1, FetchErrors)
    \/ SttResponds(1, SttReplies)

Spec == Init /\ [][Next]_vars

NextConc ==
    \E r \in Slots :
        \/ Receive(r, ConcRequests)
        \/ BodyRead(r)
        \/ TokenGranted(r)
        \/ TokenFailed(r)
        \/ SttFetchThrows(r, ConcErrors)
        \/ SttResponds(r, ConcReplies)

SpecConc == Init /\ [][NextConc]_vars

(***************************************************************************)
(* Properties.                                                             *)
(***************************************************************************)
Done(r) == pc[r] = "done"

Answered(r) == Done(r) /\ outcome[r].kind = "response"

OnIconPath(r) == request[r].url \in IconUrls

OnRootPath(r) == request[r].url \in RootUrls

\* the secret is unset or the empty string / a non-empty string
CredentialsAbsent == env.SHEETS_SERVICE_KEY_JSON \in {{}, {""}}

CredentialsPresent == ~CredentialsAbsent

SuccessStatus(status) == status \in 200..299

\* results[0].alternatives[0].transcript of each reply text that is a JSON
\* object, as a set of at most one string
TranscriptIn(text) ==
    IF text \in {BODY_HELLO, BODY_MANY} THEN {"hello"}
    ELSE IF text = BODY_EMPTY_TRANSCRIPT THEN {""}
    ELSE {}

JsonObjectTexts == SttTexts \ {BODY_NULL, BODY_NONE, BODY_DENIED}

JsonHeaders == {<<"Content-Type", "application/json">>, <<"Cache-Control", "no-store">>}

\* the invocation got a success-status reply from the speech API
GotSuccessReply(r) ==
    /\ Done(r)
    /\ sttReply[r].kind = "response"
    /\ SuccessStatus(sttReply[r].status)

\* C1 as claimed: every POST with an empty body is answered 400 "No audio data
\* provided", whether or not the credentials are configured.
C1_AsClaimed ==
    \A r \in Slots :
        (Done(r) /\ request[r].method = "POST" /\ request[r].body = <<>>)
            => (Answered(r) /\ outcome[r].status = 400)

\* C1, amended: a POST that is not on the icon path, has an empty body and is
\* handled with the credentials configured is answered 400 "No audio data
\* provided", after the body was read and before any token exchange.
C1_EmptyBodyIs400 ==
    \A r \in Slots :
        (Done(r) /\ request[r].method = "POST" /\ request[r].body = <<>>
            /\ ~OnIconPath(r) /\ CredentialsPresent)
            => /\ Answered(r)
               /\ outcome[r].status = 400
               /\ outcome[r].body = "No audio data provided"
               /\ tokenRequests[r] = 0
               /\ sttCalls[r] = <<>>

C1_Witness ==
    \E r \in Slots :
        /\ Done(r) /\ request[r].method = "POST" /\ request[r].body = <<>>
        /\ request[r].url = "https://h/api/stt"
        /\ env.SHEETS_SERVICE_KEY_JSON = {CRED_GOOD}
        /\ outcome[r].kind = "response" /\ outcome[r].status = 400
        /\ "bodyRead" \in {steps[r][i] : i \in DOMAIN steps[r]}

\* C2 as claimed: every POST, on any path, handled with the credentials absent
\* is answered 500 "Missing service credentials" without a token exchange or a
\* call of the speech API.
C2_AsClaimed ==
    \A r \in Slots :
        (Done(r) /\ request[r].method = "POST" /\ CredentialsAbsent)
            => /\ Answered(r)
               /\ outcome[r].status = 500
               /\ outcome[r].body = "Missing service credentials"
               /\ tokenRequests[r] = 0
               /\ sttCalls[r] = <<>>

\* C2, amended: every POST that is not on the icon path, with any body, handled
\* with the credentials absent (unset or empty) is answered 500 with exactly
\* "Missing service credentials", and the invocation reads no body, starts no
\* token exchange and never calls the speech API.
C2_MissingCredentialsIs500 ==
    \A r \in Slots :
        (pc[r] # "idle" /\ request[r].method = "POST" /\ ~OnIconPath(r) /\ CredentialsAbsent)
            => /\ Answered(r)
               /\ outcome[r].status = 500
               /\ outcome[r].body = "Missing service credentials"
               /\ steps[r] = <<"credentialsCheck", "response">>
               /\ tokenRequests[r] = 0
               /\ sttCalls[r] = <<>>

C2_Witness ==
    \E r \in Slots :
        /\ Done(r) /\ request[r].method = "POST" /\ request[r].body = <<72, 255>>
        /\ request[r].url = "https://h/"
        /\ env.SHEETS_SERVICE_KEY_JSON = {""}
        /\ outcome[r].kind = "response" /\ outcome[r].status = 500
        /\ outcome[r].body = "Missing service credentials"

\* C3: a request that is not on the icon path, is not GET on the root path and
\* whose method is not POST is answered 405 with a text/plain body, whatever
\* the credentials and the body are; nothing else is done for it.
C3_OtherMethodsAre405 ==
    \A r \in Slots :
        (pc[r] # "idle" /\ ~OnIconPath(r) /\ request[r].method # "POST"
            /\ ~(request[r].method = "GET" /\ OnRootPath(r)))
            => /\ Answered(r)
               /\ outcome[r].status = 405
               /\ <<"Content-Type", "text/plain">> \in outcome[r].headers
               /\ StartsWith(outcome[r].body, "Method not allowed")
               /\ steps[r] = <<"response">>
               /\ tokenRequests[r] = 0
               /\ sttCalls[r] = <<>>

C3_Witness ==
    \E r \in Slots :
        /\ Done(r) /\ request[r].method = "PUT" /\ request[r].body = <<72>>
        /\ request[r].url = "https://h/"
        /\ env.SHEETS_SERVICE_KEY_JSON = {CRED_GOOD}
        /\ outcome[r].kind = "response" /\ outcome[r].status = 405

\* C4: a request on the path /favicon.ico, with any method (POST too), query,
\* body and credentials, is answered by a 302 redirect whose Location is the
\* icon URL, before any credentials check, body read, token exchange or call
\* of the speech API.
C4_IconRedirectFirst ==
    \A r \in Slots :
        (pc[r] # "idle" /\ OnIconPath(r))
            => /\ Answered(r)
               /\ outcome[r].status = 302
               /\ outcome[r].headers = {<<"Location", ICON_URL>>}
               /\ steps[r] = <<"response">>
               /\ tokenRequests[r] = 0
               /\ sttCalls[r] = <<>>

C4_Witness ==
    \E r \in Slots :
        /\ Done(r) /\ request[r].method = "POST" /\ request[r].body = <<72>>
        /\ request[r].url = "https://h/favicon.ico?v=1#top"
        /\ env.SHEETS_SERVICE_KEY_JSON = {CRED_GOOD}
        /\ outcome[r].kind = "response" /\ outcome[r].status = 302

\* C5 as claimed: after a success-status reply of the speech API (its body a
\* JSON object) the answer is 200 JSON {text} with Cache-Control no-store, text being the first transcript
\* whenever the reply holds one and the fallback exactly when it holds none.
C5_AsClaimed ==
    \A r \in Slots :
        (GotSuccessReply(r) /\ sttReply[r].text \in JsonObjectTexts)
            => LET t == TranscriptIn(sttReply[r].text)
               IN  /\ Answered(r)
                   /\ outcome[r].status = 200
                   /\ outcome[r].headers = JsonHeaders
                   /\ t # {} => \A x \in t : outcome[r].body = JsonStringifyText(x)
                   /\ t = {} <=> outcome[r].body = JsonStringifyText(FALLBACK)

\* C5, amended: after a success-status reply of the speech API whose body is a
\* JSON object, the answer is 200 JSON {text} with Cache-Control no-store, text
\* being results[0].alternatives[0].transcript when that is present and not
\* the empty string, and the fallback "No transcription available" when it is
\* absent or the empty string; after a success-status reply whose body is not
\* JSON, or is JSON null, the invocation ends with an error and no answer.
C5_TranscriptOrFallback ==
    \A r \in Slots :
        GotSuccessReply(r)
            => LET t == TranscriptIn(sttReply[r].text)
               IN  IF sttReply[r].text \in JsonObjectTexts
                   THEN /\ Answered(r)
                        /\ outcome[r].status = 200
                        /\ outcome[r].headers = JsonHeaders
                        /\ outcome[r].body =
                             JsonStringifyText(IF t \in {{}, {""}} THEN FALLBACK
                                               ELSE CHOOSE x \in t : TRUE)
                   ELSE outcome[r].kind = "error"

C5_Witness ==
    \E r \in Slots :
        /\ GotSuccessReply(r)
        /\ sttReply[r].text = BODY_MANY
        /\ request[r].body = <<72>>
        /\ outcome[r].kind = "response"
        /\ outcome[r].body = "{\"text\":\"hello\"}"

\* C6: when the speech API answers with a status that is not a success, the
\* invocation answers 500 with "STT API error: " and the text of the reply's
\* body; the reply's own status is not passed on and no JSON {text} is built.
C6_SttErrorIs500 ==
    \A r \in Slots :
        (Done(r) /\ sttReply[r].kind = "response" /\ ~SuccessStatus(sttReply[r].status))
            => /\ Answered(r)
               /\ outcome[r].status = 500
               /\ outcome[r].body = "STT API error: " \o sttReply[r].text
               /\ Contains(outcome[r].body, sttReply[r].text)
               /\ <<"Content-Type", "application/json">> \notin outcome[r].headers

C6_Witness ==
    \E r \in Slots :
        /\ Done(r) /\ sttReply[r].kind = "response"
        /\ sttReply[r].status = 403 /\ sttReply[r].text = BODY_DENIED
        /\ outcome[r].kind = "response" /\ outcome[r].status = 500
        /\ Contains(outcome[r].body, "denied")

\* C7: when the call of the speech API throws, the invocation answers 503 with
\* "Fetch error: " and the error's message, and the call is not made again.
C7_FetchErrorIs503 ==
    \A r \in Slots :
        sttReply[r].kind = "throw"
            => /\ Answered(r)
               /\ outcome[r].status = 503
               /\ StartsWith(outcome[r].body, "Fetch error:")
               /\ outcome[r].body = "Fetch error: " \o sttReply[r].message
               /\ Len(sttCalls[r]) = 1

C7_Witness ==
    \E r \in Slots :
        /\ sttReply[r] = [kind |-> "throw", message |-> "Network connection lost."]
        /\ Done(r) /\ outcome[r].kind = "response" /\ outcome[r].status = 503

\* the token exchange of r was started and gave no token
TokenExchangeFailed(r) ==
    /\ Done(r)
    /\ "tokenExchange" \in {steps[r][i] : i \in DOMAIN steps[r]}
    /\ authToken[r] = ""

\* C8: a failed token exchange (a credential blob that does not parse, or a
\* rejected authorize()) is not caught: the invocation ends with an error and
\* without a response of its own, and the speech API is never called for it.
C8_TokenFailureUncaught ==
    \A r \in Slots :
        TokenExchangeFailed(r)
            => /\ outcome[r].kind = "error"
               /\ sttCalls[r] = <<>>
               /\ sttReply[r] = NoReply

C8_Witness ==
    \E r \in Slots :
        /\ TokenExchangeFailed(r)
        /\ env.SHEETS_SERVICE_KEY_JSON = {CRED_GOOD}
        /\ tokenRequests[r] = 1
        /\ outcome[r] = Threw("Error")

ORDER == <<"credentialsCheck", "bodyRead", "nonEmptyCheck", "tokenExchange", "sttCall",
           "response">>

Rank(step) == CHOOSE i \in DOMAIN ORDER : ORDER[i] = step

\* C9: the steps of one invocation are taken in the order credentials check,
\* body read, non-empty check, token exchange, speech API call, response, each
\* at most once; the speech API is called only after the invocation's own
\* token exchange returned a token; the token exchange is started only with
\* the credentials present and a non-empty body read.
C9_StepsInOrder ==
    \A r \in Slots :
        LET done == {steps[r][i] : i \in DOMAIN steps[r]}
        IN  /\ \A i, j \in DOMAIN steps[r] : i < j => Rank(steps[r][i]) < Rank(steps[r][j])
            /\ tokenRequests[r] <= 1
            /\ Len(sttCalls[r]) <= 1
            /\ ("sttCall" \in done <=> sttCalls[r] # <<>>)
            /\ "sttCall" \in done
                 => /\ "tokenExchange" \in done
                    /\ authToken[r] # ""
                    /\ \E k \in DOMAIN issuedTo : issuedTo[k] = r
            /\ "tokenExchange" \in done
                 => /\ CredentialsPresent
                    /\ request[r].body # <<>>
                    /\ {"credentialsCheck", "bodyRead", "nonEmptyCheck"} \subseteq done

C9_Witness ==
    \E r \in Slots : Done(r) /\ steps[r] = ORDER

\* C10: invocations interleaved at their awaits share nothing: one that calls
\* the speech API has made its own token exchange, sends the token that
\* exchange returned (no other invocation's) and the base64 of its own body,
\* and two invocations with the same request and the same replies end alike.
C10_NoSharedState ==
    /\ \A r \in Slots :
         sttCalls[r] # <<>>
             => /\ tokenRequests[r] = 1
                /\ \E k \in DOMAIN issuedTo :
                     /\ issuedTo[k] = r
                     /\ authToken[r] = AccessToken(k)
                     /\ sttCalls[r][1].authorization = "Bearer " \o AccessToken(k)
                /\ sttCalls[r][1].payload.audio.content = Base64(request[r].body)
    /\ \A r1, r2 \in Slots :
         (r1 # r2 /\ sttCalls[r1] # <<>> /\ sttCalls[r2] # <<>>)
             => sttCalls[r1][1].authorization # sttCalls[r2][1].authorization
    /\ \A r1, r2 \in Slots :
         (Done(r1) /\ Done(r2) /\ request[r1] = request[r2] /\ sttReply[r1] = sttReply[r2]
             /\ (authToken[r1] = "" <=> authToken[r2] = ""))
             => outcome[r1] = outcome[r2]

C10_Witness ==
    \E r1, r2 \in Slots :
        /\ r1 < r2
        /\ Len(issuedTo) >= 2
        /\ issuedTo[1] = r2 /\ issuedTo[2] = r1
        /\ Done(r1) /\ pc[r2] = "stt"
        /\ outcome[r1].kind = "response" /\ outcome[r1].status = 200

====
